---- MODULE Spec2Model ----
(***************************************************************************)
(* Model of scripts/test-tenant-flow.py: the TractionTester flow runner.   *)
(* One run of main(): six steps executed in order against a remote HTTP    *)
(* service whose answers are nondeterministic.  A step is split at its     *)
(* blocking HTTP calls: every action issues one request, receives one      *)
(* response and runs the step's code up to the next request (or up to the  *)
(* step's return, including the runner's bookkeeping for that return).     *)
(***************************************************************************)
EXTENDS Integers, Sequences, FiniteSets, TLC

\* Number of distinct non-empty strings the service may use as identifiers.
MaxStr == 2

\* len(steps), the step list of run_full_test.
NumSteps == 6

\* len(payloads_to_test) in step_4_create_cheqd_did.
NumVariants == 3

\* The status the code tests for everywhere, and the one step 4 singles out.
HTTP_OK == 200
HTTP_SERVER_ERROR == 500

(***************************************************************************)
(* JSON / Python values.  A value is a pair <<type, n>>.                   *)
(*   None     Python None: a JSON null, or the result of dict.get on a     *)
(*            missing key                                                  *)
(*   Str(0)   the empty string, Str(n) (n >= 1) distinct non-empty strings *)
(*   Num(n)   a JSON number                                                *)
(*   Raise    not a value: marks an expression that raised                 *)
(***************************************************************************)
None == <<"none", 0>>
Str(n) == <<"str", n>>
Num(n) == <<"num", n>>
Raise == <<"raise", 0>>

\* Identifier-like values a body can carry for a key.
IdVals == {None} \cup {Str(n) : n \in 0..MaxStr}

\* Values for the token key: also a value without a length.
TokenVals == IdVals \cup {Num(1)}

\* Python truthiness (bool(v)) of a value.
Truthy(v) == v # None /\ v[2] # 0

\* len(v) raises TypeError for None and numbers.
HasLen(v) == v[1] = "str"

\* str(v) as an f-string computes it: the text of a string is itself, None
\* becomes the four letters "None".
PyFormat(v) == IF v = None THEN <<"str:None", 0>> ELSE v

(***************************************************************************)
(* The value under the key 'result' of a body.                             *)
(*   kind    "absent" (no key), "null", "nonobj" (string, number, list),   *)
(*           "obj" (a JSON object)                                         *)
(*   truthy  bool() of the value                                           *)
(*   did     for an object, the value of its key 'did' (None if missing)   *)
(***************************************************************************)
Result(kind, truthy, did) == [kind |-> kind, truthy |-> truthy, did |-> did]
RAbsent == Result("absent", FALSE, None)
RNull == Result("null", FALSE, None)
RObj(did) == Result("obj", TRUE, did)
REmptyObj == Result("obj", FALSE, None)
RNonObj(truthy) == Result("nonobj", truthy, None)

\* Results that differ for the code that reads result.did (steps 4 and 5).
DidResults == {RAbsent, RNull, RNonObj(TRUE)} \cup {RObj(d) : d \in IdVals}

\* Results that differ for the code that tests bool(result) (step 6).
StatusResults == DidResults \cup {REmptyObj, RNonObj(FALSE)}

(***************************************************************************)
(* The value under the key 'config' of the server configuration.           *)
(*   plugin  "cheqd": config.plugin_config.cheqd is a non-empty object,    *)
(*           "none": it is missing, "null": plugin_config is null          *)
(*   wallet  "askar-anoncreds", "other", or "null": config.wallet is null  *)
(***************************************************************************)
Config(kind, plugin, wallet) == [kind |-> kind, plugin |-> plugin, wallet |-> wallet]
CAbsent == Config("absent", "none", "other")
Configs ==
  {CAbsent, Config("null", "none", "other"), Config("nonobj", "none", "other")}
  \cup {Config("obj", p, w) : p \in {"cheqd", "none", "null"},
                              w \in {"askar-anoncreds", "other", "null"}}

(***************************************************************************)
(* A response body.  kind: "invalid" (response.json() raises), "nonobj"    *)
(* (valid JSON that is not an object: it has no .get), "obj".              *)
(***************************************************************************)
Body(kind, rid, pwd, tok, did, res, cfg) ==
  [kind |-> kind, reservation_id |-> rid, reservation_pwd |-> pwd,
   token |-> tok, did |-> did, result |-> res, config |-> cfg]
EmptyObj == Body("obj", None, None, None, None, RAbsent, CAbsent)
Invalid == Body("invalid", None, None, None, None, RAbsent, CAbsent)
NonObj == Body("nonobj", None, None, None, None, RAbsent, CAbsent)

\* What session.get / session.post gives: an exception, or a response.
Resp(exc, status, body) == [exc |-> exc, status |-> status, body |-> body]
Exc == Resp(TRUE, 0, Invalid)
Unauthorized == Resp(FALSE, 401, Invalid)
ServerError == Resp(FALSE, HTTP_SERVER_ERROR, Invalid)
Errors == {Exc, Unauthorized, ServerError}
Ok(body) == Resp(FALSE, HTTP_OK, body)

\* The answers the service can give on each endpoint.
ReservationResps ==
  Errors \cup {Ok(Invalid), Ok(NonObj)}
  \cup {Ok([EmptyObj EXCEPT !.reservation_id = r, !.reservation_pwd = p]) :
          r \in IdVals, p \in IdVals}
CheckInResps ==
  Errors \cup {Ok(Invalid), Ok(NonObj)}
  \cup {Ok([EmptyObj EXCEPT !.token = t]) : t \in TokenVals}
TenantConfigResps == Errors \cup {Ok(Invalid), Ok(NonObj), Ok(EmptyObj)}
ServerConfigResps ==
  Errors \cup {Ok(Invalid), Ok(NonObj)}
  \cup {Ok([EmptyObj EXCEPT !.config = c]) : c \in Configs}
CreateDidResps ==
  Errors \cup {Ok(Invalid), Ok(NonObj)}
  \cup {Ok([EmptyObj EXCEPT !.did = d, !.result = r]) : d \in IdVals, r \in DidResults}
AssignResps == Errors \cup {Ok(Invalid), Ok(EmptyObj)}
PublicDidResps ==
  Errors \cup {Ok(Invalid), Ok(NonObj)}
  \cup {Ok([EmptyObj EXCEPT !.did = d, !.result = r]) :
          d \in {None, Str(1)}, r \in StatusResults}

VARIABLES
  tenant_token,     \* self.tenant_token
  reservation_id,   \* self.reservation_id
  reservation_pwd,  \* self.reservation_pwd
  created_did,      \* self.created_did
  pc,               \* where the run stands: the next request, or the summary
  cur,              \* number of the step the runner's loop is in (0: none yet)
  variant,          \* i+1 of step 4's loop: the payload variant sent next
  results,          \* the runner's results dict, in insertion order
  requests,         \* every request handed to the session, in order
  resps,            \* the responses received so far by the step cur
  all_passed,       \* run_full_test's all_passed
  exit_code         \* the status given to sys.exit (-1: not exited)

vars == <<tenant_token, reservation_id, reservation_pwd, created_did, pc, cur,
          variant, results, requests, resps, all_passed, exit_code>>

session == <<tenant_token, reservation_id, reservation_pwd, created_did>>

(***************************************************************************)
(* make_request                                                            *)
(***************************************************************************)
\* Faulty variant: the header built from the reservation password.
AuthHeaderFromPwd(use_auth) ==
  IF use_auth /\ Truthy(tenant_token) THEN reservation_pwd ELSE None

\* The Authorization header make_request adds: the bearer token when the
\* caller asks for authentication and a token is held, else no header.
AuthHeader(use_auth) == IF use_auth /\ Truthy(tenant_token) THEN tenant_token ELSE None

\* A request as handed to the session.  rid and did are the parts of the
\* URL formatted from session state, pwd the reservation_pwd of the JSON
\* payload, variant the index (1..3) of step 4's payload.
Req(step, method, endpoint, use_auth, rid, pwd, did, v) ==
  [step |-> step, method |-> method, endpoint |-> endpoint,
   auth |-> AuthHeader(use_auth), rid |-> rid, pwd |-> pwd, did |-> did,
   variant |-> v]

\* The responses of step k after one more response arrived.
Received(k, resp) == IF cur = k THEN Append(resps, resp) ELSE <<resp>>

(***************************************************************************)
(* run_full_test: the loop over the step list                              *)
(***************************************************************************)
\* Faulty variant: the step list names step 1 again in its third place.
EntryPcRepeatsStep1(k) ==
  CASE k = 1 -> "step1" [] k = 2 -> "step2" [] k = 3 -> "step1"
    [] k = 4 -> "step4" [] k = 5 -> "step5a" [] k = 6 -> "step6"

EntryPc(k) ==
  CASE k = 1 -> "step1" [] k = 2 -> "step2" [] k = 3 -> "step3a"
    [] k = 4 -> "step4" [] k = 5 -> "step5a" [] k = 6 -> "step6"

\* Faulty variant: the result is stored after the break, so a failure is
\* never stored.
RecordedOnlyPasses(k, success) ==
  IF success THEN Append(results, [step |-> k, success |-> success]) ELSE results

\* results[step_name] = success
Recorded(k, success) == Append(results, [step |-> k, success |-> success])

\* Faulty variant: the loop without its break.
AfterStepNoBreak(k, success) ==
  IF k < NumSteps THEN EntryPc(k + 1) ELSE "summary"

\* Faulty variant: a failed step is tried again.
AfterStepRetries(k, success) ==
  IF ~success THEN EntryPc(k)
  ELSE IF k < NumSteps THEN EntryPc(k + 1) ELSE "summary"

\* if success: go on with the next step of the list; else: break
AfterStep(k, success) ==
  IF success /\ k < NumSteps THEN EntryPc(k + 1) ELSE "summary"

\* A step returns `success` to the loop.
Return(k, success) ==
  /\ results' = Recorded(k, success)
  /\ pc' = AfterStep(k, success)

\* The summary loop: all_passed starts True and is cleared by any failure.
AllPassed(res) == \A j \in 1..Len(res) : res[j].success

\* Faulty variant: sys.exit(success), which exits with int(success).
ExitCodeOfBool(success) == IF success THEN 1 ELSE 0

\* sys.exit(0 if success else 1)
ExitCode(success) == IF success THEN 0 ELSE 1

(***************************************************************************)
(* Exceptions.  What an expression of a step raises is named by its class  *)
(* ("none": nothing raised): a transport error of the session call, the    *)
(* JSON decoding error of response.json(), the AttributeError of .get on   *)
(* a value that is not a dict, the TypeError of len() on a number.         *)
(***************************************************************************)
\* .get on the decoded body.
BodyRaised(resp) ==
  IF resp.exc THEN "RequestException"
  ELSE IF resp.status # HTTP_OK THEN "none"
  ELSE IF resp.body.kind = "invalid" THEN "JSONDecodeError"
  ELSE IF resp.body.kind = "nonobj" THEN "AttributeError"
  ELSE "none"

\* Faulty variant: the handlers name the transport errors only.
CaughtTransportOnly(kind) == kind = "RequestException"

\* except Exception as e: every class above derives from Exception.
Caught(kind) ==
  kind \in {"RequestException", "JSONDecodeError", "AttributeError", "TypeError"}

\* The exception leaves the step: run_full_test has no handler, the run
\* ends in a traceback without a summary.
Escapes(kind) == kind # "none" /\ ~Caught(kind)

\* The end of a step's code: the exception escapes, or the step returns.
Finish(k, kind, success) ==
  IF Escapes(kind)
  THEN pc' = "aborted" /\ UNCHANGED results
  ELSE Return(k, success)

(***************************************************************************)
(* Step 1: create public reservation                                       *)
(***************************************************************************)
\* response.json() or data.get(...) raises inside the try block.
Step1Raises(resp) ==
  resp.exc \/ (resp.status = HTTP_OK /\ resp.body.kind \in {"invalid", "nonobj"})

\* Faulty variant: the exception handler reports success.
Step1ReturnSwallows(resp) == IF Step1Raises(resp) THEN TRUE ELSE resp.status = HTTP_OK

Step1Return(resp) == IF Step1Raises(resp) THEN FALSE ELSE resp.status = HTTP_OK

\* self.reservation_id and self.reservation_pwd after the step.
Step1Id(resp) ==
  IF ~Step1Raises(resp) /\ resp.status = HTTP_OK
  THEN resp.body.reservation_id ELSE reservation_id
\* Faulty variant: the password read from the key 'reservation_id'.
Step1PwdFromId(resp) ==
  IF ~Step1Raises(resp) /\ resp.status = HTTP_OK
  THEN resp.body.reservation_id ELSE reservation_pwd

Step1Pwd(resp) ==
  IF ~Step1Raises(resp) /\ resp.status = HTTP_OK
  THEN resp.body.reservation_pwd ELSE reservation_pwd

Step1 ==
  /\ pc = "step1"
  /\ \E resp \in ReservationResps :
       /\ cur' = 1
       /\ requests' = Append(requests,
            Req(1, "POST", "/multitenancy/reservations", FALSE, None, None, None, 0))
       /\ resps' = Received(1, resp)
       /\ reservation_id' = Step1Id(resp)
       /\ reservation_pwd' = Step1Pwd(resp)
       /\ Finish(1, BodyRaised(resp), Step1Return(resp))
  /\ UNCHANGED <<tenant_token, created_did, variant, all_passed, exit_code>>

(***************************************************************************)
(* Step 2: tenant check-in                                                 *)
(***************************************************************************)
\* if not self.reservation_id: return False
Step2Guard == Truthy(reservation_id)

\* self.tenant_token = data.get('token') is reached.
Step2Assigns(resp) == ~resp.exc /\ resp.status = HTTP_OK /\ resp.body.kind = "obj"

Step2Token(resp) == IF Step2Assigns(resp) THEN resp.body.token ELSE tenant_token

\* Faulty variant: any readable 200 counts as a check-in.
Step2ReturnAny200(resp) == Step2Assigns(resp)

\* True only past len(self.tenant_token), which raises for a token
\* without a length.
Step2Return(resp) ==
  /\ Step2Assigns(resp)
  /\ Truthy(resp.body.token)
  /\ HasLen(resp.body.token)

\* The check-in block also calls len() on the token it logs.
Step2Raised(resp) ==
  IF BodyRaised(resp) # "none" THEN BodyRaised(resp)
  ELSE IF Step2Assigns(resp) /\ Truthy(resp.body.token) /\ ~HasLen(resp.body.token)
  THEN "TypeError"
  ELSE "none"

Step2 ==
  /\ pc = "step2"
  /\ cur' = 2
  /\ \/ /\ ~Step2Guard
        /\ resps' = <<>>
        /\ Return(2, FALSE)
        /\ UNCHANGED <<requests, tenant_token>>
     \/ /\ Step2Guard
        /\ \E resp \in CheckInResps :
             /\ requests' = Append(requests,
                  Req(2, "POST", "/multitenancy/reservations/{rid}/check-in", FALSE,
                      PyFormat(reservation_id), reservation_pwd, None, 0))
             /\ resps' = Received(2, resp)
             /\ tenant_token' = Step2Token(resp)
             /\ Finish(2, Step2Raised(resp), Step2Return(resp))
  /\ UNCHANGED <<reservation_id, reservation_pwd, created_did, variant,
                 all_passed, exit_code>>

(***************************************************************************)
(* Step 3: validate configuration                                          *)
(***************************************************************************)
\* The tenant-config block: True when the step goes on to the server
\* configuration, False when it returns False (non-200, or an exception
\* from the request or from response.json()).
TenantConfigOk(resp) ==
  /\ ~resp.exc
  /\ resp.status = HTTP_OK
  /\ resp.body.kind # "invalid"

\* The tenant-config block decodes the body and reads nothing from it.
TenantConfigRaised(resp) ==
  IF resp.exc THEN "RequestException"
  ELSE IF resp.status = HTTP_OK /\ resp.body.kind = "invalid" THEN "JSONDecodeError"
  ELSE "none"

Step3a ==
  /\ pc = "step3a"
  /\ \E resp \in TenantConfigResps :
       /\ cur' = 3
       /\ requests' = Append(requests,
            Req(3, "GET", "/tenant/config", TRUE, None, None, None, 0))
       /\ resps' = Received(3, resp)
       /\ IF TenantConfigOk(resp)
          THEN pc' = "step3b" /\ UNCHANGED results
          ELSE Finish(3, TenantConfigRaised(resp), FALSE)
  /\ UNCHANGED <<session, variant, all_passed, exit_code>>

\* An expression of the server-config block raises: response.json(), or a
\* .get on something that is not a dict.
ServerConfigRaises(resp) ==
  \/ resp.exc
  \/ /\ resp.status = HTTP_OK
     /\ \/ resp.body.kind \in {"invalid", "nonobj"}
        \/ resp.body.config.kind \in {"null", "nonobj"}
        \/ resp.body.config.plugin = "null"
        \/ resp.body.config.wallet = "null"

\* Faulty variant: the exception handler of the server-config block
\* returns False, like the one of the tenant-config block.
ServerConfigReturnStrict(resp) ==
  IF ServerConfigRaises(resp) THEN FALSE
  ELSE IF resp.status = HTTP_OK THEN TRUE
  ELSE TRUE

\* The three ways out of the server-config block.
ServerConfigReturn(resp) ==
  IF ServerConfigRaises(resp) THEN TRUE
  ELSE IF resp.status = HTTP_OK THEN TRUE
  ELSE TRUE

ServerConfigRaised(resp) ==
  IF BodyRaised(resp) # "none" THEN BodyRaised(resp)
  ELSE IF ServerConfigRaises(resp) THEN "AttributeError"
  ELSE "none"

Step3b ==
  /\ pc = "step3b"
  /\ \E resp \in ServerConfigResps :
       /\ requests' = Append(requests,
            Req(3, "GET", "/status/config", TRUE, None, None, None, 0))
       /\ resps' = Received(3, resp)
       /\ Finish(3, ServerConfigRaised(resp), ServerConfigReturn(resp))
  /\ UNCHANGED <<session, cur, variant, all_passed, exit_code>>

(***************************************************************************)
(* Step 4: create cheqd DID                                                *)
(***************************************************************************)
\* Faulty variant: only the nested location is read.
CreatedDidNestedOnly(body) ==
  IF body.result.kind = "absent" THEN None
  ELSE IF body.result.kind = "obj" THEN body.result.did
  ELSE Raise

\* Faulty variant: the two operands of `or` exchanged.
CreatedDidNestedFirst(body) ==
  IF body.result.kind \notin {"absent", "obj"} THEN Raise
  ELSE IF Truthy(body.result.did) THEN body.result.did
  ELSE body.did

\* data.get('did') or data.get('result', {}).get('did')
CreatedDidOf(body) ==
  IF Truthy(body.did) THEN body.did
  ELSE IF body.result.kind = "absent" THEN None
  ELSE IF body.result.kind = "obj" THEN body.result.did
  ELSE Raise

\* The DID one variant's response yields (None: the loop goes on).
VariantDid(resp) ==
  IF resp.exc \/ resp.status # HTTP_OK THEN None
  ELSE IF resp.body.kind # "obj" THEN None
  ELSE IF CreatedDidOf(resp.body) = Raise THEN None
  ELSE IF Truthy(CreatedDidOf(resp.body)) THEN CreatedDidOf(resp.body)
  ELSE None

\* What the try block of one loop iteration raises.
VariantRaised(resp) ==
  IF BodyRaised(resp) # "none" THEN BodyRaised(resp)
  ELSE IF resp.status = HTTP_OK /\ CreatedDidOf(resp.body) = Raise THEN "AttributeError"
  ELSE "none"

\* Faulty variant: one payload too many.
MoreVariantsOffByOne(v) == v <= NumVariants

\* The loop goes on to the next payload after a failed one.
MoreVariants(v) == v < NumVariants

Step4 ==
  /\ pc = "step4"
  /\ \E resp \in CreateDidResps :
       /\ cur' = 4
       /\ requests' = Append(requests,
            Req(4, "POST", "/did/cheqd/create", TRUE, None, None, None, variant))
       /\ resps' = Received(4, resp)
       /\ IF VariantDid(resp) # None
          THEN /\ created_did' = VariantDid(resp)
               /\ Return(4, TRUE)
               /\ UNCHANGED variant
          ELSE /\ UNCHANGED created_did
               /\ IF MoreVariants(variant) /\ ~Escapes(VariantRaised(resp))
                  THEN variant' = variant + 1 /\ UNCHANGED <<pc, results>>
                  ELSE Finish(4, VariantRaised(resp), FALSE) /\ UNCHANGED variant
  /\ UNCHANGED <<tenant_token, reservation_id, reservation_pwd, all_passed, exit_code>>

(***************************************************************************)
(* Step 5: assign public DID                                               *)
(***************************************************************************)
\* if not self.created_did: return False
Step5Guard == Truthy(created_did)

\* The assignment POST was accepted: the step goes on to verify it.
AssignOk(resp) == ~resp.exc /\ resp.status = HTTP_OK

\* The assignment response is not decoded: only the call can raise.
AssignRaised(resp) == IF resp.exc THEN "RequestException" ELSE "none"

Step5a ==
  /\ pc = "step5a"
  /\ cur' = 5
  /\ \/ /\ ~Step5Guard
        /\ resps' = <<>>
        /\ Return(5, FALSE)
        /\ UNCHANGED requests
     \/ /\ Step5Guard
        /\ \E resp \in AssignResps :
             /\ requests' = Append(requests,
                  Req(5, "POST", "/wallet/did/public?did={did}", TRUE,
                      None, None, PyFormat(created_did), 0))
             /\ resps' = Received(5, resp)
             /\ IF AssignOk(resp)
                THEN pc' = "step5b" /\ UNCHANGED results
                ELSE Finish(5, AssignRaised(resp), FALSE)
  /\ UNCHANGED <<session, variant, all_passed, exit_code>>

\* Faulty variant: the lookup reads the top level first, as step 4 does.
AssignedDidTopFirst(body) ==
  IF Truthy(body.did) THEN body.did
  ELSE IF body.result.kind = "absent" THEN None
  ELSE IF body.result.kind = "obj" THEN body.result.did
  ELSE Raise

\* public_did_data.get('result', {}).get('did')
AssignedDidOf(body) ==
  IF body.result.kind = "absent" THEN None
  ELSE IF body.result.kind = "obj" THEN body.result.did
  ELSE Raise

VerifyRaised(resp) ==
  IF BodyRaised(resp) # "none" THEN BodyRaised(resp)
  ELSE IF resp.status = HTTP_OK /\ AssignedDidOf(resp.body) = Raise THEN "AttributeError"
  ELSE "none"

\* Faulty variant: a readable lookup is taken as the verification.
VerifyReturnNoCompare(resp) ==
  IF resp.exc \/ resp.status # HTTP_OK THEN FALSE
  ELSE IF resp.body.kind # "obj" THEN FALSE
  ELSE AssignedDidOf(resp.body) # Raise

VerifyReturn(resp) ==
  IF resp.exc \/ resp.status # HTTP_OK THEN FALSE
  ELSE IF resp.body.kind # "obj" THEN FALSE
  ELSE IF AssignedDidOf(resp.body) = Raise THEN FALSE
  ELSE AssignedDidOf(resp.body) = created_did

Step5b ==
  /\ pc = "step5b"
  /\ \E resp \in PublicDidResps :
       /\ requests' = Append(requests,
            Req(5, "GET", "/wallet/did/public", TRUE, None, None, None, 0))
       /\ resps' = Received(5, resp)
       /\ Finish(5, VerifyRaised(resp), VerifyReturn(resp))
  /\ UNCHANGED <<session, cur, variant, all_passed, exit_code>>

(***************************************************************************)
(* Step 6: validate issuer status                                          *)
(***************************************************************************)
\* Faulty variant: the status check also compares the DID, as step 5 does.
Step6ReturnComparesDid(resp) ==
  IF resp.exc \/ resp.status # HTTP_OK THEN FALSE
  ELSE IF resp.body.kind # "obj" THEN FALSE
  ELSE resp.body.result.truthy /\ resp.body.result.did = created_did

Step6Return(resp) ==
  IF resp.exc \/ resp.status # HTTP_OK THEN FALSE
  ELSE IF resp.body.kind # "obj" THEN FALSE
  ELSE resp.body.result.truthy

Step6 ==
  /\ pc = "step6"
  /\ \E resp \in PublicDidResps :
       /\ cur' = 6
       /\ requests' = Append(requests,
            Req(6, "GET", "/wallet/did/public", TRUE, None, None, None, 0))
       /\ resps' = Received(6, resp)
       /\ Finish(6, BodyRaised(resp), Step6Return(resp))
  /\ UNCHANGED <<session, variant, all_passed, exit_code>>

(***************************************************************************)
(* The final summary of run_full_test, and main's sys.exit                 *)
(***************************************************************************)
Summary ==
  /\ pc = "summary"
  /\ all_passed' = AllPassed(results)
  /\ exit_code' = ExitCode(all_passed')
  /\ pc' = "done"
  /\ UNCHANGED <<session, cur, variant, results, requests, resps>>

(***************************************************************************)
(* The run                                                                 *)
(***************************************************************************)
Init ==
  /\ tenant_token = None
  /\ reservation_id = None
  /\ reservation_pwd = None
  /\ created_did = None
  /\ pc = "step1"
  /\ cur = 0
  /\ variant = 1
  /\ results = <<>>
  /\ requests = <<>>
  /\ resps = <<>>
  /\ all_passed = TRUE
  /\ exit_code = -1

Next ==
  \/ Step1
  \/ Step2
  \/ Step3a
  \/ Step3b
  \/ Step4
  \/ Step5a
  \/ Step5b
  \/ Step6
  \/ Summary

Spec == Init /\ [][Next]_vars

\* Every run ends: each action is a bounded piece of sequential code and
\* every HTTP call is assumed to return or raise.
FairSpec == Spec /\ WF_vars(Next)

TypeOK ==
  /\ pc \in {"step1", "step2", "step3a", "step3b", "step4", "step5a", "step5b",
             "step6", "summary", "done", "aborted"}
  /\ cur \in 0..NumSteps
  /\ variant \in 1..NumVariants
  /\ Len(results) <= NumSteps
  /\ exit_code \in {-1, 0, 1}
  /\ all_passed \in BOOLEAN

(***************************************************************************)
(* Vocabulary of the properties                                            *)
(***************************************************************************)
\* Step k has returned and the loop has not entered another step: resps
\* holds the responses step k received.
JustReturned(k) == cur = k /\ Len(results) = k

\* Some recorded step reported failure.
HasFailed == \E j \in 1..Len(results) : ~results[j].success

\* A string of positive length.
NonEmptyStr(v) == v[1] = "str" /\ v[2] > 0

\* The response is an HTTP 200 (no exception was raised by the call).
Is200(resp) == ~resp.exc /\ resp.status = 200

\* The response is a 200 whose JSON object carries a DID, at the top level
\* or under 'result'.
YieldsDid(resp) ==
  /\ Is200(resp)
  /\ resp.body.kind = "obj"
  /\ \/ NonEmptyStr(resp.body.did)
     \/ resp.body.result.kind = "obj" /\ NonEmptyStr(resp.body.result.did)

IsCreate(r) == r.endpoint = "/did/cheqd/create"
CreateRequests == SelectSeq(requests, IsCreate)

(***************************************************************************)
(* C1.  When the run has ended, run_full_test returned true exactly when   *)
(* all six steps were executed, in order, and each reported success; the   *)
(* exit code is 0 in that case and 1 in every other; nothing exits before. *)
(***************************************************************************)
AllSixPassed ==
  /\ Len(results) = 6
  /\ \A k \in 1..6 : results[k].step = k /\ results[k].success

C1_ExitIffAllSixPassed ==
  /\ pc = "done" =>
       /\ all_passed <=> AllSixPassed
       /\ all_passed => exit_code = 0
       /\ ~all_passed => exit_code = 1
  /\ pc # "done" => exit_code = -1

C1_Witness == pc = "done" /\ AllSixPassed /\ exit_code = 0 /\ Len(requests) = 8

(***************************************************************************)
(* C2.  Short-circuit: a failed step is the last step invoked.  From the   *)
(* moment a step has reported failure no request is issued, no step is     *)
(* entered and no result is recorded; a check-in answered 401 is such a    *)
(* failure of step 2.                                                      *)
(***************************************************************************)
C2_FailedIsLast ==
  /\ \A j \in 1..Len(results) :
       ~results[j].success =>
         /\ j = Len(results)
         /\ cur = j
         /\ pc \in {"summary", "done"}
         /\ \A n \in 1..Len(requests) : requests[n].step <= j
  /\ (cur = 2 /\ resps = <<Unauthorized>>) =>
       /\ Len(results) = 2 /\ ~results[2].success
       /\ \A n \in 1..Len(requests) : requests[n].step <= 2

C2_NothingAfterFailure ==
  HasFailed => /\ requests' = requests
               /\ cur' = cur
               /\ results' = results

C2_ShortCircuit == [] C2_FailedIsLast /\ [][C2_NothingAfterFailure]_vars

C2_Witness ==
  /\ pc = "done"
  /\ resps = <<Unauthorized>>
  /\ Len(results) = 2 /\ results[1].success /\ ~results[2].success
  /\ Len(requests) = 2
  /\ exit_code = 1

(***************************************************************************)
(* C3.  No step issues a request while a session field it consumes is      *)
(* unset: a check-in request has a reservation id and a reservation        *)
(* password, a request of steps 3, 4 and 6 has the bearer token, a request *)
(* of step 5 has the created DID and the bearer token.                     *)
(***************************************************************************)
C3_NoRequestWithUnsetField ==
  \A n \in 1..Len(requests) :
    LET r == requests[n] IN
      /\ r.step = 2 => r.rid # PyFormat(None) /\ r.pwd # None
      /\ r.step \in {3, 4, 6} => r.auth # None
      /\ r.step = 5 => r.did # PyFormat(None) /\ r.auth # None

(***************************************************************************)
(* C4.  Step 1 reports success exactly when the response is a 200 whose    *)
(* body has both reservation_id and reservation_pwd.                       *)
(***************************************************************************)
C4_Step1FailsOnMissingField ==
  JustReturned(1) =>
    (results[1].success <=>
       /\ Is200(resps[1])
       /\ resps[1].body.reservation_id # None
       /\ resps[1].body.reservation_pwd # None)

(***************************************************************************)
(* C5.  After a 200 carrying reservation_id and reservation_pwd the        *)
(* session holds exactly these two values, and the check-in request that   *)
(* follows is addressed by that id and carries that password.              *)
(***************************************************************************)
HasBothFields(resp) ==
  /\ Is200(resp)
  /\ resp.body.kind = "obj"
  /\ resp.body.reservation_id # None
  /\ resp.body.reservation_pwd # None

C5_Stored ==
  (JustReturned(1) /\ HasBothFields(resps[1])) =>
    /\ reservation_id = resps[1].body.reservation_id
    /\ reservation_pwd = resps[1].body.reservation_pwd

C5_CheckInUsesThem ==
  (JustReturned(1) /\ HasBothFields(resps[1]) /\ Len(requests') > Len(requests)) =>
    LET r == requests'[Len(requests')] IN
      /\ r.step = 2
      /\ r.rid = resps[1].body.reservation_id
      /\ r.pwd = resps[1].body.reservation_pwd

C5_ReservationChained == [] C5_Stored /\ [][C5_CheckInUsesThem]_vars

C5_Witness ==
  /\ Len(requests) = 2
  /\ requests[2].step = 2
  /\ requests[2].rid = Str(2)
  /\ requests[2].pwd = Str(1)
  /\ reservation_id = Str(2)
  /\ reservation_pwd = Str(1)

(***************************************************************************)
(* C6.  Step 2 reports success exactly when the check-in response is a     *)
(* 200 whose body has a token of positive length; a 200 without a token    *)
(* is a failure, and after a failed step 2 no request has carried a        *)
(* bearer token or belongs to a later step.                                *)
(***************************************************************************)
C6_CheckInNeedsToken ==
  /\ JustReturned(2) =>
       (results[2].success <=>
          /\ Len(resps) = 1
          /\ Is200(resps[1])
          /\ NonEmptyStr(resps[1].body.token))
  /\ (Len(results) >= 2 /\ ~results[2].success) =>
       \A n \in 1..Len(requests) :
         requests[n].step <= 2 /\ requests[n].auth = None

C6_Witness ==
  /\ pc = "done"
  /\ resps = <<Ok(EmptyObj)>>
  /\ Len(results) = 2 /\ ~results[2].success
  /\ Len(requests) = 2

(***************************************************************************)
(* C7.  The creation requests carry the variants 1, 2, 3 in this order,    *)
(* each at most once; every variant before the last one sent did not       *)
(* yield a DID, and after a variant that yields one the loop is left.      *)
(***************************************************************************)
C7_VariantsInOrder ==
  /\ Len(CreateRequests) <= 3
  /\ \A j \in 1..Len(CreateRequests) :
       CreateRequests[j].variant = j /\ CreateRequests[j].step = 4
  /\ cur = 4 =>
       /\ Len(resps) = Len(CreateRequests)
       /\ \A j \in 1..Len(resps) :
            YieldsDid(resps[j]) => j = Len(resps) /\ pc = "step5a"
  /\ cur # 4 => (Len(CreateRequests) > 0 <=> cur > 4)

C7_Witness ==
  /\ pc = "step5a"
  /\ Len(CreateRequests) = 2
  /\ ~YieldsDid(resps[1])
  /\ YieldsDid(resps[2])

(***************************************************************************)
(* C8.  Step 4 reports failure exactly when three variants were sent and   *)
(* none yielded a DID; two 500s followed by a 200 with a top-level did     *)
(* make it succeed.                                                        *)
(***************************************************************************)
TwoErrorsThenDid ==
  /\ Len(resps) = 3
  /\ resps[1] = ServerError
  /\ resps[2] = ServerError
  /\ Is200(resps[3])
  /\ NonEmptyStr(resps[3].body.did)

C8_FailsIffAllVariantsFail ==
  JustReturned(4) =>
    /\ ~results[4].success <=>
         /\ Len(resps) = 3
         /\ \A j \in 1..3 : ~YieldsDid(resps[j])
    /\ ~results[4].success => Len(CreateRequests) = 3
    /\ TwoErrorsThenDid => results[4].success /\ created_did = resps[3].body.did

C8_Witness ==
  /\ JustReturned(4)
  /\ TwoErrorsThenDid
  /\ resps[3].body.result = RAbsent
  /\ results[4].success

(***************************************************************************)
(* C9.  Step 5 reports success only after a 200 to the assignment and a    *)
(* 200 to the lookup whose DID equals created_did; a lookup showing        *)
(* another DID fails the step; the lookup is sent only after a 200 to      *)
(* the assignment.                                                         *)
(***************************************************************************)
\* The DID a lookup response shows under 'result'.
ObservedDid(resp) ==
  IF Is200(resp) /\ resp.body.kind = "obj" /\ resp.body.result.kind = "obj"
  THEN resp.body.result.did ELSE None

C9_ReadAfterWrite ==
  /\ JustReturned(5) =>
       /\ results[5].success =>
            /\ Len(resps) = 2
            /\ Is200(resps[1])
            /\ Is200(resps[2])
            /\ ObservedDid(resps[2]) = created_did
       /\ (Len(resps) = 2 /\ ObservedDid(resps[2]) # created_did) =>
            ~results[5].success
  /\ (cur = 5 /\ (pc = "step5b" \/ Len(resps) = 2)) => Is200(resps[1])
  /\ \A n \in 1..Len(requests) :
       (requests[n].step = 5 /\ requests[n].method = "GET") =>
         /\ n > 1
         /\ requests[n - 1].step = 5 /\ requests[n - 1].method = "POST"
         /\ requests[n - 1].did = created_did

C9_Witness ==
  /\ JustReturned(5)
  /\ ~results[5].success
  /\ Len(resps) = 2
  /\ Is200(resps[1])
  /\ Is200(resps[2])
  /\ created_did = Str(1)
  /\ ObservedDid(resps[2]) = Str(2)

(***************************************************************************)
(* C10.  Step 3 reports success exactly when the tenant configuration      *)
(* came back as a readable 200; otherwise it fails without asking for      *)
(* the server configuration; whatever the server-config request gives      *)
(* (error status, unreadable or unexpected body, exception), the step      *)
(* succeeds.                                                               *)
(***************************************************************************)
IsServerConfig(r) == r.endpoint = "/status/config"

C10_OnlyTenantConfigIsFatal ==
  JustReturned(3) =>
    /\ results[3].success <=>
         (Is200(resps[1]) /\ resps[1].body.kind # "invalid")
    /\ ~results[3].success =>
         Len(resps) = 1 /\ Len(SelectSeq(requests, IsServerConfig)) = 0
    /\ Len(resps) = 2 =>
         results[3].success /\ Len(SelectSeq(requests, IsServerConfig)) = 1

C10_Witness ==
  /\ JustReturned(3)
  /\ Len(resps) = 2
  /\ resps[2] = Exc
  /\ results[3].success
  /\ pc = "step4"

(***************************************************************************)
(* C11.  As stated: a transport exception raised by an HTTP call makes     *)
(* the step that issued the call report failure, the server-config fetch   *)
(* of step 3 being the only exception.                                     *)
(***************************************************************************)
C11_EveryExceptionFailsStep ==
  \A k \in 1..6 :
    JustReturned(k) =>
      \A j \in 1..Len(resps) :
        resps[j].exc => (~results[k].success \/ (k = 3 /\ j = 2))

(***************************************************************************)
(* C11, amended.  A transport exception makes the issuing step report      *)
(* failure, except in the server-config fetch of step 3 and in a payload   *)
(* variant of step 4: there it fails the variant only, the loop goes on    *)
(* with the next variant, and the step succeeds exactly when a later       *)
(* variant yields a DID.                                                   *)
(***************************************************************************)
C11_ExceptionFailsStepOrVariant ==
  /\ \A k \in 1..6 :
       JustReturned(k) =>
         \A j \in 1..Len(resps) :
           resps[j].exc =>
             \/ k = 3 /\ j = 2
             \/ k = 4 /\ (results[k].success <=>
                            \E m \in (j + 1)..Len(resps) : YieldsDid(resps[m]))
             \/ k \notin {3, 4} /\ ~results[k].success
             \/ k = 3 /\ j = 1 /\ ~results[k].success
  /\ (cur = 4 /\ Len(resps) \in 1..2 /\ resps[Len(resps)].exc) =>
       pc = "step4" /\ variant = Len(resps) + 1 /\ Len(results) = 3

C11_Witness ==
  /\ JustReturned(4)
  /\ Len(resps) = 2
  /\ resps[1] = Exc
  /\ YieldsDid(resps[2])
  /\ results[4].success

(***************************************************************************)
(* C12.  No exception leaves a step, whatever the service answers: the     *)
(* run is never aborted, every step that was entered and is not waiting    *)
(* for a response has recorded a boolean result, and short of the end of   *)
(* the summary the run can always go on, so that it ends with the summary  *)
(* and an exit code.                                                       *)
(***************************************************************************)
C12_NoExceptionEscapes ==
  /\ pc # "aborted"
  /\ \A j \in 1..Len(results) : results[j].success \in BOOLEAN
  /\ pc \in {"step3b", "step5b"} => Len(results) = cur - 1
  /\ pc \notin {"step3b", "step5b"} =>
       \/ Len(results) = cur
       \/ pc = "step4" /\ cur = 4 /\ Len(results) = 3
  /\ pc # "done" => ENABLED Next
  /\ pc = "done" => exit_code \in {0, 1}

\* A null 'result' in the lookup of step 5 raised, and the step returned.
C12_Witness ==
  /\ JustReturned(5)
  /\ Len(resps) = 2
  /\ Is200(resps[2])
  /\ resps[2].body.result = RNull
  /\ ~results[5].success
  /\ pc = "done"

(***************************************************************************)
(* C13.  Frame of the session state.  reservation_id and reservation_pwd   *)
(* change only in step 1, the token only in step 2, created_did only in    *)
(* step 4; steps 3, 5 and 6 and the summary change none of the four; and   *)
(* a field set by a step keeps its value once a later step has started.    *)
(***************************************************************************)
C13_WrittenByOneStep ==
  /\ (reservation_id' # reservation_id \/ reservation_pwd' # reservation_pwd)
       => cur' = 1 /\ cur \in {0, 1}
  /\ tenant_token' # tenant_token => cur' = 2 /\ cur \in {1, 2}
  /\ created_did' # created_did => cur' = 4 /\ cur \in {3, 4}
  /\ (cur' \in {3, 5, 6} \/ pc' \in {"done", "aborted"}) => session' = session
  /\ cur >= 2 => reservation_id' = reservation_id /\ reservation_pwd' = reservation_pwd
  /\ cur >= 3 => tenant_token' = tenant_token
  /\ cur >= 5 => created_did' = created_did

C13_SessionFrame == [][C13_WrittenByOneStep]_vars

\* All four fields were set, each by its step, and the run has ended.
C13_Witness ==
  /\ pc = "done"
  /\ Len(results) = 6
  /\ reservation_id = Str(1)
  /\ reservation_pwd = Str(2)
  /\ tenant_token = Str(2)
  /\ created_did = Str(1)

(***************************************************************************)
(* C14.  In a run no check-in request is sent while the reservation id or  *)
(* the reservation password is unset: after a step 1 whose 200 response    *)
(* omitted either field, the check-in endpoint is never requested.         *)
(***************************************************************************)
IsCheckIn(r) == r.endpoint = "/multitenancy/reservations/{rid}/check-in"

C14_NoCheckInWithUnsetReservation ==
  (reservation_id = None \/ reservation_pwd = None) =>
    Len(SelectSeq(requests, IsCheckIn)) = 0

(***************************************************************************)
(* C15.  Identifier chaining.  created_did is set exactly when step 4      *)
(* has reported success; it is then the DID of the first variant that      *)
(* yielded one, the top-level 'did' taken before the nested 'result.did';  *)
(* and the assignment request of step 5 is addressed by that DID.          *)
(***************************************************************************)
\* The DID a yielding response carries, top level first.
PreferredDid(resp) ==
  IF NonEmptyStr(resp.body.did) THEN resp.body.did ELSE resp.body.result.did

C15_CreatedDidSet ==
  /\ Len(results) < 4 => created_did = None
  /\ Len(results) >= 4 => (created_did # None <=> results[4].success)
  /\ (JustReturned(4) /\ results[4].success) =>
       /\ YieldsDid(resps[Len(resps)])
       /\ \A j \in 1..(Len(resps) - 1) : ~YieldsDid(resps[j])
       /\ created_did = PreferredDid(resps[Len(resps)])

C15_AssignUsesIt ==
  (JustReturned(4) /\ Len(requests') > Len(requests)) =>
    LET r == requests'[Len(requests')] IN
      /\ results[4].success
      /\ r.step = 5 /\ r.method = "POST"
      /\ r.did = PreferredDid(resps[Len(resps)])

C15_IdentifierChained == [] C15_CreatedDidSet /\ [][C15_AssignUsesIt]_vars

\* Both locations carry a DID and they differ: the top-level one is kept.
C15_Witness ==
  /\ JustReturned(4)
  /\ results[4].success
  /\ resps[Len(resps)].body.did = Str(1)
  /\ resps[Len(resps)].body.result = RObj(Str(2))
  /\ created_did = Str(1)

(***************************************************************************)
(* C16.  As stated: the read-after-write lookup of step 5 accepts the      *)
(* assigned DID at the top level of the body as it accepts it under        *)
(* 'result'.                                                               *)
(***************************************************************************)
\* The lookup response carries the DID d at the top level or under 'result'.
CarriesDid(resp, d) ==
  /\ Is200(resp)
  /\ resp.body.kind = "obj"
  /\ \/ resp.body.did = d
     \/ resp.body.result.kind = "obj" /\ resp.body.result.did = d

C16_LookupAcceptsBothShapes ==
  (JustReturned(5) /\ Len(resps) = 2 /\ CarriesDid(resps[2], created_did)) =>
    results[5].success

(***************************************************************************)
(* C16, amended.  The lookup of step 5 reads the nested location only: the *)
(* step succeeds exactly when the 200 response carries the assigned DID    *)
(* as 'did' of its 'result' object; a response that carries it at the top  *)
(* level only is a mismatch and fails the step.                            *)
(***************************************************************************)
C16_LookupReadsNestedOnly ==
  (JustReturned(5) /\ Len(resps) = 2) =>
    /\ results[5].success <=>
         /\ Is200(resps[2])
         /\ resps[2].body.kind = "obj"
         /\ resps[2].body.result.kind = "obj"
         /\ resps[2].body.result.did = created_did
    /\ (resps[2].body.did = created_did /\ resps[2].body.result.kind # "obj") =>
         ~results[5].success

C16_Witness ==
  /\ JustReturned(5)
  /\ Len(resps) = 2
  /\ Is200(resps[2])
  /\ resps[2].body.did = created_did
  /\ resps[2].body.result = RAbsent
  /\ ~results[5].success

(***************************************************************************)
(* C17.  Step 6 reports success exactly when the lookup of the public DID  *)
(* is a 200 whose body has a non-empty 'result'; the DID in it is not      *)
(* compared with created_did, so another DID than the created one passes.  *)
(***************************************************************************)
\* bool(result): the key is there and its value is not null, empty or zero.
NonEmptyResult(resp) ==
  /\ resp.body.kind = "obj"
  /\ resp.body.result.kind \in {"obj", "nonobj"}
  /\ resp.body.result.truthy

C17_IssuerStatus ==
  JustReturned(6) =>
    /\ Len(resps) = 1
    /\ results[6].success <=> (Is200(resps[1]) /\ NonEmptyResult(resps[1]))

C17_Witness ==
  /\ JustReturned(6)
  /\ results[6].success
  /\ created_did = Str(1)
  /\ resps[1].body.result = RObj(Str(2))

(***************************************************************************)
(* C18.  When the summary is printed the recorded results are those of     *)
(* steps 1..k, in this order, for some k in 1..6: all but the last are     *)
(* PASS, the last is FAIL whenever k < 6, and no later step has an entry.  *)
(***************************************************************************)
C18_ResultsArePrefix ==
  pc \in {"summary", "done"} =>
    /\ Len(results) \in 1..6
    /\ \A j \in 1..Len(results) : results[j].step = j
    /\ \A j \in 1..(Len(results) - 1) : results[j].success
    /\ Len(results) < 6 => ~results[Len(results)].success
    /\ cur = Len(results)

C18_Witness ==
  /\ pc = "done"
  /\ Len(results) = 4
  /\ \A j \in 1..3 : results[j].success
  /\ ~results[4].success

(***************************************************************************)
(* C19.  Authentication ordering.  The requests of steps 1 and 2 carry no  *)
(* Authorization header.  A request to a bearer endpoint (steps 3 to 6)    *)
(* is issued only after the check-in request and after step 2 reported     *)
(* success, and its header is the token the check-in response carried.     *)
(***************************************************************************)
BearerEndpoints ==
  {"/tenant/config", "/status/config", "/did/cheqd/create",
   "/wallet/did/public?did={did}", "/wallet/did/public"}

C19_AuthOrdering ==
  /\ \A n \in 1..Len(requests) :
       LET r == requests[n] IN
         /\ r.endpoint \in BearerEndpoints <=> r.step >= 3
         /\ r.step \in {1, 2} => r.auth = None
         /\ r.step >= 3 =>
              /\ n >= 3 /\ IsCheckIn(requests[2])
              /\ Len(results) >= 2 /\ results[2].success
              /\ NonEmptyStr(r.auth)
              /\ r.auth = tenant_token
  /\ (JustReturned(2) /\ results[2].success) =>
       tenant_token = resps[1].body.token
  /\ Len(results) < 2 => \A n \in 1..Len(requests) : requests[n].auth = None

C19_Witness ==
  /\ pc = "done"
  /\ Len(requests) = 10
  /\ requests[1].auth = None /\ requests[2].auth = None
  /\ \A n \in 3..10 : requests[n].auth = Str(2)

(***************************************************************************)
(* C20.  Bounded termination.  Every HTTP call returning or raising, a     *)
(* run issues at most 10 requests: at most 1, 1, 2, 3, 2, 1 by steps 1 to  *)
(* 6, in the order of the step list, none sent twice by a step except the  *)
(* creation request of step 4.  Every transition issues a request,         *)
(* records a result or ends the summary, so a run has at most 17           *)
(* transitions, and short of the end of the summary it is never stuck:     *)
(* it terminates with the summary.                                         *)
(***************************************************************************)
\* The most requests step k issues.
MaxRequestsOf(k) ==
  CASE k \in {1, 2, 6} -> 1 [] k \in {3, 5} -> 2 [] k = 4 -> 3

RequestsOf(k) == SelectSeq(requests, LAMBDA r : r.step = k)

\* What a run has done so far.
Progress == Len(requests) + Len(results) + (IF pc = "done" THEN 1 ELSE 0)

C20_BoundedRequests ==
  /\ Len(requests) <= 10
  /\ \A k \in 1..6 : Len(RequestsOf(k)) <= MaxRequestsOf(k)
  /\ \A n, m \in 1..Len(requests) :
       n < m =>
         /\ requests[n].step <= requests[m].step
         /\ (requests[n].step = requests[m].step
               /\ requests[n].endpoint = requests[m].endpoint)
              => requests[n].step = 4
  /\ Progress <= 17
  /\ pc # "done" => ENABLED Next
  /\ pc = "done" => exit_code \in {0, 1} /\ Len(results) >= 1

C20_EachTransitionAdvances == Progress' > Progress

C20_BoundedTermination == [] C20_BoundedRequests /\ [][C20_EachTransitionAdvances]_vars

\* The longest run: all three variants were needed and every step passed.
C20_Witness ==
  /\ pc = "done"
  /\ Len(requests) = 10
  /\ Len(CreateRequests) = 3
  /\ Progress = 17
  /\ exit_code = 0

====
